---------------------------- MODULE Spec2Model ----------------------------
(***************************************************************************)
(* A model of rua's install pipeline (src/src/action_install.rs) and of    *)
(* its archive auditor (src/src/tar_check.rs).                             *)
(*                                                                         *)
(* Strings are TLA+ strings; prefixes and suffixes are computed on them    *)
(* with Len and SubSeq, as str::starts_with / str::ends_with do.           *)
(***************************************************************************)
EXTENDS Integers, Sequences, FiniteSets, TLC

(***************************************************************************)
(* Bounds of the model.                                                    *)
(***************************************************************************)
\* the deepest recursion depth a resolved target can have
MaxDepth == 1
\* the largest number of member entries of an archive
MaxMembers == 2
\* the largest number of direct calls of check_tars_and_move
MaxGateCalls == 2

(***************************************************************************)
(* Program constants.                                                      *)
(***************************************************************************)
\* tar_check.rs:78   mode > 0o777
PermMask == 511
\* tar_check.rs:75   mode & 0o111
ExecMask == 73
\* action_install.rs:46 and tar_check.rs:16   std::process::exit(1)
ExitFailure == 1
\* an abort that ends the process as every other failure does
ExitAbortAsFailure == ExitFailure
\* tar_check.rs:129   std::process::exit(-1)
ExitAbort == -1
\* action_install.rs:69   pacman_deps.len() + aur_packages.len() == 1
SinglePackage == 1

(***************************************************************************)
(* The universe the inputs are drawn from.                                 *)
(***************************************************************************)
\* split package names (target identifiers)
Targets == {"a", "b"}
\* the split package names of the plans computed on their own
PlanTargets == {"a", "b", "c"}
\* package-base names (build recipes)
Pkgbases == {"p", "q"}
\* versions the registry reports
Versions == {"1"}
\* names of packages the system package manager can satisfy
PacmanNames == {"glibc"}
\* file names a build directory may hold after a build
FileNames == {"a-1.tar", "b-1.tar.xz", "a-1.zip", "a-2.tar"}
\* what a checked_tars directory holds from an earlier run
StaleFiles == {"a-0.tar"}
\* lines the operator may type (already lower-cased by read_line_lowercase)
Inputs == {"o", "q", "s", "e", "l", "i", "t", "x"}
\* the lines typed during a whole run of install
RunInputs == {"o", "q", "x"}

\* str::starts_with
StartsWith(s, prefix) ==
    Len(prefix) <= Len(s) /\ SubSeq(s, 1, Len(prefix)) = prefix

\* str::ends_with
EndsWith(s, suffix) ==
    Len(suffix) <= Len(s) /\ SubSeq(s, Len(s) - Len(suffix) + 1, Len(s)) = suffix

\* the sequences without repetition over a finite set (the orders an
\* iteration of the set can take)
RECURSIVE Orders(_)
Orders(S) ==
    IF S = {} THEN {<<>>}
    ELSE UNION {{<<x>> \o rest : rest \in Orders(S \ {x})} : x \in S}


(***************************************************************************)
(* Directory layout (rua_files): one build directory and one checked_tars  *)
(* directory per package-base.                                             *)
(***************************************************************************)
build_dir_path(pkgbase) == "build/" \o pkgbase
checked_tars_dir_path(pkgbase) == "checked_tars/" \o pkgbase
\* PathBuf::join / DirEntry::path
JoinPath(dir, file_name) == dir \o "/" \o file_name

(***************************************************************************)
(* install_all, lines 104-125: the whitelist and the build plan.           *)
(***************************************************************************)
\* split_to_raur is an IndexMap (insertion ordered): a sequence of records
\* [split, pkgbase, version] with pairwise different split names.
split_to_pkgbase_of(raur) ==
    [i \in 1..Len(raur) |-> [split |-> raur[i].split, pkgbase |-> raur[i].pkgbase]]

split_to_version_of(raur) ==
    [i \in 1..Len(raur) |-> [split |-> raur[i].split, version |-> raur[i].version]]

\* a whitelist of the target names without their versions
ArchiveWhitelistNoVersion(s2v) ==
    [i \in 1..Len(s2v) |-> s2v[i].split \o "-"]

\* format!("{}-{}", pair.0, pair.1) over split_to_version
ArchiveWhitelist(s2v) ==
    [i \in 1..Len(s2v) |-> s2v[i].split \o "-" \o s2v[i].version]

\* (pkgbase, depth, split) for every entry of split_to_pkgbase
PackageTriples(s2p, s2d) ==
    [i \in 1..Len(s2p) |->
        [pkgbase |-> s2p[i].pkgbase, depth |-> s2d[s2p[i].split], split |-> s2p[i].split]]

\* a sort key that orders the shallowest targets first
SortKeyAscending(triple) == triple.depth

\* the key of sorted_by_key(|(_pkgbase, depth, _split)| -depth)
SortKey(triple) == 0 - triple.depth

\* insert x into a sequence sorted by SortKey, behind every element whose key
\* is not greater (a stable sort keeps the order of equal keys)
RECURSIVE InsertSorted(_, _)
InsertSorted(x, sorted) ==
    IF sorted = <<>> THEN <<x>>
    ELSE IF SortKey(Head(sorted)) <= SortKey(x)
         THEN <<Head(sorted)>> \o InsertSorted(x, Tail(sorted))
         ELSE <<x>> \o sorted

\* the triples left in the order of the resolution
Unsorted(seq) == seq

\* Itertools::sorted_by_key: a stable sort
RECURSIVE SortedByKey(_)
SortedByKey(seq) ==
    IF seq = <<>> THEN <<>>
    ELSE InsertSorted(seq[Len(seq)], SortedByKey(SubSeq(seq, 1, Len(seq) - 1)))

\* Itertools::unique_by(pkgbase): the first occurrence of every pkgbase
RECURSIVE UniqueBy(_, _)
UniqueBy(seq, seen) ==
    IF seq = <<>> THEN <<>>
    ELSE IF Head(seq).pkgbase \in seen
         THEN UniqueBy(Tail(seq), seen)
         ELSE <<Head(seq)>> \o UniqueBy(Tail(seq), seen \cup {Head(seq).pkgbase})

\* lines 110-125: the plan install_all works through
BuildPlan(s2p, s2d) == UniqueBy(SortedByKey(PackageTriples(s2p, s2d)), {})

\* Itertools::group_by(depth): the length of the first group, the longest
\* prefix whose elements have the depth of the first element
RECURSIVE FirstGroupLen(_, _)
FirstGroupLen(seq, depth) ==
    IF seq = <<>> \/ Head(seq).depth # depth THEN 0
    ELSE 1 + FirstGroupLen(Tail(seq), depth)

(***************************************************************************)
(* check_tars_and_move, lines 185-195: the whitelist filter.               *)
(***************************************************************************)
\* a test against the first prefix of the whitelist alone
WhitelistedByFirst(file_name, whitelist) ==
    whitelist # <<>> /\ StartsWith(file_name, whitelist[1])

\* archive_whitelist.iter().any(|prefix| file_name.starts_with(prefix))
Whitelisted(file_name, whitelist) ==
    \E i \in 1..Len(whitelist) : StartsWith(file_name, whitelist[i])

FilterDirItems(files, whitelist) ==
    {f \in files : Whitelisted(f, whitelist)}

(***************************************************************************)
(* tar_check, lines 20-39: the container format by suffix.                 *)
(***************************************************************************)
\* a dispatch that reads every file that is not .tar.xz as a plain tar
TarCheckFormatNoElse(tar_str, openable) ==
    IF ~openable THEN "panic"
    ELSE IF EndsWith(tar_str, ".tar.xz") THEN "xz"
    ELSE "tar"

\* "xz", "tar" (the archive is walked and reviewed) or "err" (Err(String));
\* File::open comes first and panics on a path that cannot be opened
TarCheckFormat(tar_str, openable) ==
    IF ~openable THEN "panic"
    ELSE IF EndsWith(tar_str, ".tar.xz") THEN "xz"
    ELSE IF EndsWith(tar_str, ".tar") THEN "tar"
    ELSE "err"

(***************************************************************************)
(* tar_check_archive, lines 41-88: the walk over the member entries.       *)
(***************************************************************************)
\* bitwise and of two naturals
RECURSIVE BitAnd(_, _)
BitAnd(x, y) ==
    IF x = 0 \/ y = 0 THEN 0
    ELSE (x % 2) * (y % 2) + 2 * BitAnd(x \div 2, y \div 2)

\* line 71
IsNormal(path) == ~EndsWith(path, "/") /\ ~StartsWith(path, ".")
\* line 75
IsExecutable(path, mode) == IsNormal(path) /\ BitAnd(mode, ExecMask) > 0
\* a test that looks at the same members as the two lists before it
IsSuidAmongNormal(path, mode) == IsNormal(path) /\ mode > PermMask

\* line 78
IsSuid(path, mode) == mode > PermMask
\* line 81
IsInstallFile(path) == path = ".INSTALL"

\* the paths of a sequence of members
Paths(members) == [i \in 1..Len(members) |-> members[i].path]

TestNormal(m) == IsNormal(m.path)
TestExecutable(m) == IsExecutable(m.path, m.mode)
TestSuid(m) == IsSuid(m.path, m.mode)

\* lines 72-80: the three lists, in archive order
AllFiles(members) == Paths(SelectSeq(members, TestNormal))
ExecutableFiles(members) == Paths(SelectSeq(members, TestExecutable))
SuidFiles(members) == Paths(SelectSeq(members, TestSuid))

\* read_to_string appends the content of every .INSTALL member
RECURSIVE InstallText(_)
InstallText(members) ==
    IF members = <<>> THEN ""
    ELSE (IF IsInstallFile(Head(members).path) THEN Head(members).content ELSE "")
         \o InstallText(Tail(members))

\* a flag that is set whatever the archive holds
HasInstallAlways(install_file) == TRUE

\* lines 46-70 and 82-84: the walk panics on an entry it cannot read (the
\* entry itself, its path or its mode) and on an .INSTALL member whose content
\* is not UTF-8
WalkPanics(members) ==
    \E i \in 1..Len(members) :
        members[i].corrupt \/ (IsInstallFile(members[i].path) /\ ~members[i].utf8)

\* line 88
HasInstall(install_file) == install_file # ""

\* a Rust process that panics ends with status 101
PanicStatus == 101

\* std::process::exit(code): the status the parent sees is the low byte
ExitStatus(code) == code % 256

(***************************************************************************)
(* The state.                                                              *)
(***************************************************************************)
VARIABLES
    entry,              \* the public function that was called
    pc,                 \* where the process is
    info_result,        \* recursive_info: "Ok" with the three maps below, or "Err"
    split_to_depth,     \* recursive_info: split name -> depth
    split_to_raur,      \* recursive_info: insertion ordered [split, pkgbase, version]
    pacman_deps,        \* recursive_info: names pacman can satisfy
    asdeps,             \* the --asdeps flag
    build_dir,          \* pkgbase -> file names in its build directory
    checked_tars,       \* pkgbase -> file names in its checked_tars directory
    archive_whitelist,  \* install_all: the expected archive name prefixes
    plan,               \* install_all: `packages` after unique_by
    pos,                \* install_all: index in plan of the next group
    tier,               \* install_all: the group being processed
    idx,                \* install_all: index in tier of the running for loop
    to_review,          \* install: package-bases the review loop has not visited
    calls,              \* the calls of check_tars_and_move made so far
    name,               \* check_tars_and_move: the package-base it was called for
    dir_items,          \* check_tars_and_move: the files kept by the filter
    unchecked,          \* check_tars_and_move: kept files not yet through tar_check
    tar_file,           \* tar_check: the path under review
    archive,            \* the member entries of the file at tar_file
    all_files,          \* tar_check_archive
    executable_files,   \* tar_check_archive
    suid_files,         \* tar_check_archive
    install_file,       \* tar_check_archive
    string,             \* the line read_line_lowercase returned last
    result,             \* what tar_check returned last: "", "Ok" or "Err"
    output,             \* what the last iteration of the review loop printed
    stderr,             \* the names or the path of the last fatal message
    exit_status,        \* <<>> while running, then <<status>>
    log                 \* the calls made to collaborators, in order

resolution == <<info_result, split_to_depth, split_to_raur, pacman_deps, asdeps>>
dirs == <<build_dir, checked_tars>>
plan_vars == <<archive_whitelist, plan, pos, tier, idx>>
gate_vars == <<calls, name, dir_items, unchecked>>
audit_vars == <<tar_file, archive, all_files, executable_files, suid_files, install_file, output,
               result>>
vars == <<entry, pc, resolution, dirs, plan_vars, to_review, gate_vars, audit_vars,
          string, stderr, exit_status, log>>

\* one entry of the log
Event(ev, pkg, depth, files, batch, dep) ==
    [ev |-> ev, pkg |-> pkg, depth |-> depth, files |-> files, batch |-> batch, dep |-> dep,
     line |-> ""]

\* the process ends in a failing step of install or install_all: what it names and the
\* status it ends with
Abort(site, pkgbase, depth, path, status) ==
    /\ stderr' = {path}
    /\ exit_status' = <<status>>
    /\ log' = Append(log, [Event("fail", pkgbase, depth, {}, {}, FALSE) EXCEPT !.line = site])
    /\ pc' = "exited"

(***************************************************************************)
(* The results recursive_info can hand to install.                         *)
(***************************************************************************)
\* the depth maps: some target was requested (depth 0)
DepthMapsOf(names) ==
    {m \in UNION {[keys -> 0..MaxDepth] : keys \in SUBSET names \ {{}}} :
        \E t \in DOMAIN m : m[t] = 0}

DepthMaps == DepthMapsOf(Targets)

\* the metadata results for a set of queried names: any of them, in any order
RaurResults(keys) ==
    UNION {
        {[i \in 1..Len(order) |->
            [split |-> order[i], pkgbase |-> pb[order[i]], version |-> ver[order[i]]]] :
            pb \in [found -> Pkgbases], ver \in [found -> Versions], order \in Orders(found)}
        : found \in SUBSET keys}

\* the archives a built file can turn out to be
RunArchives ==
    { <<[path |-> "x", mode |-> 493, content |-> "", utf8 |-> TRUE, corrupt |-> FALSE]>>,
      <<[path |-> "x", mode |-> 2541, content |-> "", utf8 |-> TRUE, corrupt |-> FALSE],
        [path |-> ".INSTALL", mode |-> 420, content |-> "rm", utf8 |-> TRUE,
         corrupt |-> FALSE]>>,
      <<[path |-> "x", mode |-> 420, content |-> "", utf8 |-> TRUE, corrupt |-> TRUE]>> }

NoAudit ==
    /\ tar_file = ""
    /\ archive = <<>>
    /\ all_files = <<>>
    /\ executable_files = <<>>
    /\ suid_files = <<>>
    /\ install_file = ""
    /\ output = <<>>

\* nothing of install_all, check_tars_and_move or tar_check has run
InitLocals ==
    /\ plan = <<>>
    /\ pos = 1
    /\ tier = <<>>
    /\ idx = 1
    /\ to_review = {}
    /\ calls = 0
    /\ name = ""
    /\ dir_items = {}
    /\ unchecked = {}
    /\ NoAudit
    /\ string = ""
    /\ result = ""
    /\ stderr = {}
    /\ exit_status = <<>>
    /\ log = <<>>

\* lines 24-27: recursive_info returned Ok with a resolution, or Err (the
\* three maps are never bound then)
Init ==
    /\ entry = "install"
    /\ pc = "install"
    /\ info_result \in {"Ok", "Err"}
    /\ IF info_result = "Ok"
       THEN /\ split_to_depth \in DepthMaps
            /\ split_to_raur \in RaurResults(DOMAIN split_to_depth)
            /\ pacman_deps \in SUBSET PacmanNames
       ELSE /\ split_to_depth = <<>>
            /\ split_to_raur = <<>>
            /\ pacman_deps = {}
    /\ asdeps \in BOOLEAN
    /\ build_dir = [p \in Pkgbases |-> {}]
    /\ checked_tars = [p \in Pkgbases |-> StaleFiles]
    /\ archive_whitelist = <<>>
    /\ InitLocals

(***************************************************************************)
(* install, lines 22-66.                                                   *)
(***************************************************************************)
\* lines 25-27: recursive_info returned Err and unwrap_or_else panics, before
\* anything else is called
RecursiveInfoPanics ==
    /\ pc = "install"
    /\ info_result = "Err"
    /\ stderr' = {"Failed to fetch info from AUR"}
    /\ exit_status' = <<PanicStatus>>
    /\ pc' = "exited"
    /\ UNCHANGED <<entry, resolution, dirs, plan_vars, to_review, gate_vars, audit_vars,
                   string, log>>

\* a check of the requested targets (depth 0) alone
NotFoundAmongRequested(s2d, raur) ==
    {pkg \in DOMAIN s2d : s2d[pkg] = 0 /\ \A i \in 1..Len(raur) : raur[i].split # pkg}

\* lines 37-40
NotFound(s2d, raur) ==
    {pkg \in DOMAIN s2d : \A i \in 1..Len(raur) : raur[i].split # pkg}

\* lines 41-47
InstallNotFound ==
    /\ pc = "install"
    /\ info_result = "Ok"
    /\ NotFound(split_to_depth, split_to_raur) # {}
    /\ stderr' = NotFound(split_to_depth, split_to_raur)
    /\ exit_status' = <<ExitStatus(ExitFailure)>>
    /\ pc' = "exited"
    /\ UNCHANGED <<entry, resolution, dirs, plan_vars, to_review, gate_vars, audit_vars,
                   string, log>>

\* line 69: show_install_summary returns at once
SummarySkipped(deps, aur_packages) ==
    Cardinality(deps) + Cardinality(DOMAIN aur_packages) = SinglePackage

\* the package-base of the first target alone
PkgbaseOfFirst(raur) == {raur[i].pkgbase : i \in 1..Len(raur) \cap {1}}

\* split_to_pkgbase.values().collect::<HashSet<_>>()
PkgbaseSet(raur) == {raur[i].pkgbase : i \in 1..Len(raur)}

\* line 49 and lines 68-86: the summary is printed, or skipped
ShowInstallSummary ==
    /\ pc = "install"
    /\ info_result = "Ok"
    /\ NotFound(split_to_depth, split_to_raur) = {}
    /\ IF SummarySkipped(pacman_deps, split_to_depth)
       THEN /\ pc' = "review"
            /\ to_review' = PkgbaseSet(split_to_raur)
            /\ log' = log
       ELSE /\ pc' = "proceed"
            /\ to_review' = to_review
            /\ log' = Append(log, Event("summary", "", 0, {}, {}, FALSE))
    /\ UNCHANGED <<entry, resolution, dirs, plan_vars, gate_vars, audit_vars,
                   string, stderr, exit_status>>

\* a loop that any line ends
ProceedOnAnyLine(line) ==
    /\ pc = "proceed"
    /\ string' = line
    /\ pc' = "review"
    /\ to_review' = PkgbaseSet(split_to_raur)
    /\ log' = Append(log, Event("proceed", "", 0, {}, {}, FALSE))
    /\ UNCHANGED <<entry, resolution, dirs, plan_vars, gate_vars, audit_vars,
                   stderr, exit_status>>

\* lines 87-93: one iteration of the Proceed? loop
Proceed(line) ==
    /\ pc = "proceed"
    /\ string' = line
    /\ IF line = "o"
       THEN /\ pc' = "review"
            /\ to_review' = PkgbaseSet(split_to_raur)
            /\ log' = Append(log, Event("proceed", "", 0, {}, {}, FALSE))
       ELSE UNCHANGED <<pc, to_review, log>>
    /\ UNCHANGED <<entry, resolution, dirs, plan_vars, gate_vars, audit_vars,
                   stderr, exit_status>>

\* lines 50-56: one iteration of the review loop (a HashSet: any order)
ReviewRepo(pkgbase) ==
    /\ pc = "review"
    /\ pkgbase \in to_review
    /\ to_review' = to_review \ {pkgbase}
    /\ log' = Append(log, Event("review", pkgbase, 0, {}, {}, FALSE))
    /\ UNCHANGED <<entry, pc, resolution, dirs, plan_vars, gate_vars, audit_vars,
                   string, stderr, exit_status>>

\* lines 51-54: the review directory cannot be created and install panics
ReviewDirPanics(pkgbase) ==
    /\ pc = "review"
    /\ pkgbase \in to_review
    /\ Abort("review_dir", pkgbase, 0, "review/" \o pkgbase, PanicStatus)
    /\ UNCHANGED <<entry, resolution, dirs, plan_vars, to_review, gate_vars, audit_vars,
                   string>>

\* line 57
EnsurePacmanPackagesInstalled ==
    /\ pc = "review"
    /\ to_review = {}
    /\ pc' = "install_all"
    /\ log' = Append(log, Event("pacman", "", 0, pacman_deps, {}, FALSE))
    /\ UNCHANGED <<entry, resolution, dirs, plan_vars, to_review, gate_vars, audit_vars,
                   string, stderr, exit_status>>

(***************************************************************************)
(* install_all, lines 96-173.                                              *)
(***************************************************************************)
\* lines 104-125
InstallAllBegin ==
    /\ pc = "install_all"
    /\ archive_whitelist' = ArchiveWhitelist(split_to_version_of(split_to_raur))
    /\ plan' = BuildPlan(split_to_pkgbase_of(split_to_raur), split_to_depth)
    /\ pos' = 1
    /\ pc' = "tier"
    /\ UNCHANGED <<entry, resolution, dirs, tier, idx, to_review, gate_vars, audit_vars,
                   string, stderr, exit_status, log>>

\* line 127: the next group of group_by, or the end of install
NextTier ==
    /\ pc = "tier"
    /\ IF pos > Len(plan)
       THEN /\ pc' = "done"
            /\ exit_status' = <<0>>
            /\ UNCHANGED <<pos, tier, idx>>
       ELSE LET n == FirstGroupLen(SubSeq(plan, pos, Len(plan)), plan[pos].depth) IN
            /\ tier' = SubSeq(plan, pos, pos + n - 1)
            /\ pos' = pos + n
            /\ idx' = 1
            /\ pc' = "build"
            /\ exit_status' = exit_status
    /\ UNCHANGED <<entry, resolution, dirs, archive_whitelist, plan, to_review, gate_vars,
                   audit_vars, string, stderr, log>>

\* the index after i in a for loop over the tier, and where the loop leaves to
LoopStep(i, again, after) ==
    /\ idx' = IF i < Len(tier) THEN i + 1 ELSE 1
    /\ pc' = IF i < Len(tier) THEN again ELSE after

\* a single loop over the tier that audits each package-base right after its
\* build
BuildDirectoryThenGate(produced) ==
    /\ pc = "build"
    /\ build_dir' = [build_dir EXCEPT ![tier[idx].pkgbase] = produced]
    /\ log' = Append(log, Event("build", tier[idx].pkgbase, tier[idx].depth, {}, {}, FALSE))
    /\ idx' = idx
    /\ pc' = "gate"
    /\ UNCHANGED <<entry, resolution, checked_tars, archive_whitelist, plan, pos, tier,
                   to_review, gate_vars, audit_vars, string, stderr, exit_status>>

\* lines 129-146: one iteration of the build loop; the directory then holds
\* the copied recipe and whatever the build produced
BuildDirectory(produced) ==
    /\ pc = "build"
    /\ build_dir' = [build_dir EXCEPT ![tier[idx].pkgbase] = produced]
    /\ log' = Append(log, Event("build", tier[idx].pkgbase, tier[idx].depth, {}, {}, FALSE))
    /\ LoopStep(idx, "build", "gate")
    /\ UNCHANGED <<entry, resolution, checked_tars, archive_whitelist, plan, pos, tier,
                   to_review, gate_vars, audit_vars, string, stderr, exit_status>>

\* what the copy of a review directory can bring into the build directory
RecipeFiles == FileNames \cup {".git"}

\* lines 132-140: removing, creating or filling the build directory, or
\* removing .git from it, fails and expect() panics; the old directory is
\* still there, or it was removed and holds what was copied before the failure
BuildDirectoryPanics ==
    /\ pc = "build"
    /\ \E left \in {build_dir[tier[idx].pkgbase]} \cup SUBSET RecipeFiles :
          build_dir' = [build_dir EXCEPT ![tier[idx].pkgbase] = left]
    /\ Abort("build_dir", tier[idx].pkgbase, tier[idx].depth,
             build_dir_path(tier[idx].pkgbase), PanicStatus)
    /\ UNCHANGED <<entry, resolution, checked_tars, plan_vars, to_review, gate_vars,
                   audit_vars, string>>

\* the statuses a failed build can end the process with (any but zero)
BuildFailureStatuses == {ExitStatus(ExitFailure), PanicStatus, ExitStatus(ExitAbort)}

\* lines 141-145: wrapped::build_directory does not return when the build
\* fails: the process ends, with whatever the build left in the directory
BuildDirectoryFails(produced, status) ==
    /\ pc = "build"
    /\ build_dir' = [build_dir EXCEPT ![tier[idx].pkgbase] = produced]
    /\ Abort("build", tier[idx].pkgbase, tier[idx].depth,
             build_dir_path(tier[idx].pkgbase), status)
    /\ UNCHANGED <<entry, resolution, checked_tars, plan_vars, to_review, gate_vars,
                   audit_vars, string>>

\* lines 175-184: check_tars_and_move(name, ..) cannot read the build
\* directory (it does not exist, or an entry cannot be read) and panics before
\* it has listed anything
ReadDirFails(pkgbase) ==
    /\ name' = pkgbase
    /\ calls' = calls + 1
    /\ Abort("read_dir", pkgbase, 0, build_dir_path(pkgbase), PanicStatus)
    /\ UNCHANGED <<entry, resolution, dirs, plan_vars, to_review, dir_items, unchecked,
                   audit_vars, string>>

\* lines 147-149 and 178-184: the call of the audit loop panics
ReadDirPanics ==
    /\ pc = "gate"
    /\ ReadDirFails(tier[idx].pkgbase)

\* lines 175-196: check_tars_and_move(name, dirs, archive_whitelist) lists
\* and filters the build directory
ListAndFilter(pkgbase) ==
    /\ name' = pkgbase
    /\ calls' = calls + 1
    /\ dir_items' = FilterDirItems(build_dir[pkgbase], archive_whitelist)
    /\ unchecked' = dir_items'
    /\ log' = Append(log, Event("gate", pkgbase, 0, build_dir[pkgbase], {}, FALSE))
    /\ pc' = "tar_check"

\* lines 147-149: one iteration of the audit loop begins
CheckTarsAndMove ==
    /\ pc = "gate"
    /\ ListAndFilter(tier[idx].pkgbase)
    /\ UNCHANGED <<entry, resolution, dirs, plan_vars, to_review, audit_vars,
                   string, stderr, exit_status>>

\* a copy in place of the rename: the kept files stay in the build directory
CopyChecked ==
    /\ pc = "tar_check"
    /\ unchecked = {}
    /\ checked_tars' = [checked_tars EXCEPT ![name] = dir_items]
    /\ build_dir' = build_dir
    /\ log' = Append(log, Event("move", name, 0, dir_items, {}, FALSE))
    /\ pc' = "moved"
    /\ UNCHANGED <<entry, resolution, plan_vars, to_review, gate_vars, audit_vars,
                   string, stderr, exit_status>>

\* a move that takes every file of the build directory along
MoveEverything ==
    /\ pc = "tar_check"
    /\ unchecked = {}
    /\ checked_tars' = [checked_tars EXCEPT ![name] = build_dir[name]]
    /\ build_dir' = [build_dir EXCEPT ![name] = {}]
    /\ log' = Append(log, Event("move", name, 0, build_dir[name], {}, FALSE))
    /\ pc' = "moved"
    /\ UNCHANGED <<entry, resolution, plan_vars, to_review, gate_vars, audit_vars,
                   string, stderr, exit_status>>

\* a move into the checked_tars directory as it is, without removing it first
MoveIntoExisting ==
    /\ pc = "tar_check"
    /\ unchecked = {}
    /\ checked_tars' = [checked_tars EXCEPT ![name] = @ \cup dir_items]
    /\ build_dir' = [build_dir EXCEPT ![name] = @ \ dir_items]
    /\ log' = Append(log, Event("move", name, 0, dir_items, {}, FALSE))
    /\ pc' = "moved"
    /\ UNCHANGED <<entry, resolution, plan_vars, to_review, gate_vars, audit_vars,
                   string, stderr, exit_status>>

\* lines 200-226: every kept file is through tar_check; checked_tars is
\* removed and created again, and the kept files are renamed into it
MoveChecked ==
    /\ pc = "tar_check"
    /\ unchecked = {}
    /\ checked_tars' = [checked_tars EXCEPT ![name] = dir_items]
    /\ build_dir' = [build_dir EXCEPT ![name] = @ \ dir_items]
    /\ log' = Append(log, Event("move", name, 0, dir_items, {}, FALSE))
    /\ pc' = "moved"
    /\ UNCHANGED <<entry, resolution, plan_vars, to_review, gate_vars, audit_vars,
                   string, stderr, exit_status>>

\* lines 202-225: removing or creating checked_tars fails, or a rename does,
\* and check_tars_and_move panics: the removal stopped with all or part of
\* the old content left (or none: the directory was not created again), or
\* the directory was emptied and holds the files renamed before the failure
MoveCheckedPanics ==
    /\ pc = "tar_check"
    /\ unchecked = {}
    /\ \E left \in SUBSET checked_tars[name], moved \in SUBSET dir_items :
          /\ moved # dir_items \/ moved = {}
          /\ moved # {} => left = {}
          /\ checked_tars' = [checked_tars EXCEPT ![name] = left \cup moved]
          /\ build_dir' = [build_dir EXCEPT ![name] = @ \ moved]
    /\ Abort("move", name, 0, checked_tars_dir_path(name), PanicStatus)
    /\ UNCHANGED <<entry, resolution, plan_vars, to_review, gate_vars, audit_vars, string>>

\* lines 147-149: check_tars_and_move returned to install_all
CheckTarsReturned ==
    /\ pc = "moved"
    /\ entry = "install"
    /\ LoopStep(idx, "gate", "collect")
    /\ UNCHANGED <<entry, resolution, dirs, archive_whitelist, plan, pos, tier,
                   to_review, gate_vars, audit_vars, string, stderr, exit_status, log>>

\* lines 154-170
FilesToInstall(group, checked) ==
    UNION {{[split |-> group[i].split,
             path |-> JoinPath(checked_tars_dir_path(group[i].pkgbase), f)] :
                f \in checked[group[i].pkgbase]} : i \in 1..Len(group)}

\* a flag that passes --asdeps on unchanged, whatever the depth
InstallAsDepsFlagOnly(flag, depth) == flag

\* lines 157-168: a checked_tars directory of the tier cannot be read and
\* install_all panics before the installer is called
ReadCheckedPanics ==
    /\ pc = "collect"
    /\ \E i \in 1..Len(tier) :
          Abort("collect", tier[i].pkgbase, tier[i].depth,
                checked_tars_dir_path(tier[i].pkgbase), PanicStatus)
    /\ UNCHANGED <<entry, resolution, dirs, plan_vars, to_review, gate_vars, audit_vars,
                   string>>

\* line 171: the second argument
InstallAsDeps(flag, depth) == flag \/ depth > 0

\* lines 154-171
EnsureAurPackagesInstalled ==
    /\ pc = "collect"
    /\ log' = Append(log, Event("install", "", tier[1].depth, {},
                                FilesToInstall(tier, checked_tars),
                                InstallAsDeps(asdeps, tier[1].depth)))
    /\ pc' = "tier"
    /\ UNCHANGED <<entry, resolution, dirs, plan_vars, to_review, gate_vars, audit_vars,
                   string, stderr, exit_status>>

(***************************************************************************)
(* tar_check_unwrap, tar_check and tar_check_archive.                      *)
(***************************************************************************)
\* a tar_check_unwrap that reports the Err of tar_check and returns
TarCheckUnwrapReturns(path, openable, members) ==
    LET format == TarCheckFormat(path, openable) IN
    /\ tar_file' = path
    /\ output' = <<>>
    /\ IF format \in {"xz", "tar"} /\ ~WalkPanics(members)
       THEN /\ archive' = members
            /\ all_files' = AllFiles(members)
            /\ executable_files' = ExecutableFiles(members)
            /\ suid_files' = SuidFiles(members)
            /\ install_file' = InstallText(members)
            /\ pc' = "prompt"
            /\ UNCHANGED <<result, stderr, exit_status>>
       ELSE /\ result' = IF format = "err" THEN "Err" ELSE result
            /\ stderr' = {path}
            /\ pc' = IF format = "err" THEN "checked" ELSE "exited"
            /\ exit_status' = IF format = "err" THEN exit_status ELSE <<PanicStatus>>
            /\ UNCHANGED <<archive, all_files, executable_files, suid_files, install_file>>

\* tar_check.rs lines 12-88: tar_check_unwrap calls tar_check on a path. An
\* unsupported suffix comes back as Err and tar_check_unwrap ends the process;
\* otherwise tar_check_archive walks the members and reaches its prompt, or
\* panics on a member it cannot read
TarCheckUnwrap(path, openable, members) ==
    LET format == TarCheckFormat(path, openable) IN
    /\ tar_file' = path
    /\ output' = <<>>
    /\ IF format \in {"xz", "tar"} /\ ~WalkPanics(members)
       THEN /\ archive' = members
            /\ all_files' = AllFiles(members)
            /\ executable_files' = ExecutableFiles(members)
            /\ suid_files' = SuidFiles(members)
            /\ install_file' = InstallText(members)
            /\ pc' = "prompt"
            /\ UNCHANGED <<result, stderr, exit_status>>
       ELSE /\ result' = IF format = "err" THEN "Err" ELSE result
            /\ stderr' = {path}
            /\ exit_status' = <<IF format = "err" THEN ExitStatus(ExitFailure)
                                ELSE PanicStatus>>
            /\ pc' = "exited"
            /\ UNCHANGED <<archive, all_files, executable_files, suid_files, install_file>>

\* action_install.rs lines 197-199: the next kept file goes to tar_check_unwrap
\* (read_dir yields the files in no particular order)
TarCheck(file_name, members) ==
    /\ pc = "tar_check"
    /\ file_name \in unchecked
    /\ log' = Append(log, Event("tar_check", name, 0, {file_name}, {}, FALSE))
    /\ TarCheckUnwrap(JoinPath(build_dir_path(name), file_name),
                      file_name \in build_dir[name], members)
    /\ UNCHANGED <<entry, resolution, dirs, plan_vars, to_review, gate_vars, string>>

\* tar_check.rs lines 90-103: the options the prompt offers
Menu(suid, install_text) ==
    {"e", "l", "t", "o"}
        \cup (IF HasInstall(install_text) THEN {"i"} ELSE {})
        \cup (IF suid # <<>> THEN {"s"} ELSE {})

\* a chain whose last branch takes every other line as the go-ahead
BranchAcceptByDefault(line, suid, install_text) ==
    IF line = "s" /\ suid # <<>> THEN "suid"
    ELSE IF line = "e" THEN "executable"
    ELSE IF line = "l" THEN "all"
    ELSE IF line = "i" /\ HasInstall(install_text) THEN "install"
    ELSE IF line = "t" THEN "shell"
    ELSE IF line = "q" THEN "abort"
    ELSE "accept"

\* tar_check.rs lines 106-130: the branch of the if-else chain a line takes
Branch(line, suid, install_text) ==
    IF line = "s" /\ suid # <<>> THEN "suid"
    ELSE IF line = "e" THEN "executable"
    ELSE IF line = "l" THEN "all"
    ELSE IF line = "i" /\ HasInstall(install_text) THEN "install"
    ELSE IF line = "t" THEN "shell"
    ELSE IF line = "o" THEN "accept"
    ELSE IF line = "q" THEN "abort"
    ELSE "none"

\* what the branch prints
Printed(branch) ==
    CASE branch = "suid" -> suid_files
      [] branch = "executable" -> executable_files
      [] branch = "all" -> all_files
      [] branch = "install" -> <<install_file>>
      [] branch = "shell" -> <<"Exit the shell with logout or Ctrl-D...">>
      [] branch = "abort" -> <<"Exiting...">>
      [] OTHER -> <<>>

\* tar_check.rs lines 89-131: one iteration of the review loop
ReviewLoop(line) ==
    LET branch == Branch(line, suid_files, install_file) IN
    /\ pc = "prompt"
    /\ string' = line
    /\ output' = Printed(branch)
    /\ IF branch = "accept"
       THEN /\ pc' = "checked"
            /\ result' = "Ok"
            /\ exit_status' = exit_status
       ELSE IF branch = "abort"
       THEN /\ pc' = "exited"
            /\ exit_status' = <<ExitStatus(ExitAbort)>>
            /\ result' = result
       ELSE UNCHANGED <<pc, result, exit_status>>
    /\ UNCHANGED <<entry, resolution, dirs, plan_vars, to_review, gate_vars, tar_file,
                   archive, all_files, executable_files, suid_files, install_file, stderr, log>>

\* a loop that renames each file into checked_tars as soon as it is accepted
MoveAsAccepted ==
    /\ pc = "checked"
    /\ entry # "tar_check_unwrap"
    /\ LET done == {f \in unchecked : JoinPath(build_dir_path(name), f) = tar_file} IN
        /\ unchecked' = unchecked \ done
        /\ checked_tars' = [checked_tars EXCEPT ![name] = @ \cup done]
        /\ build_dir' = [build_dir EXCEPT ![name] = @ \ done]
        /\ log' = Append(log, [Event("accepted", name, 0, done, {}, FALSE)
                                EXCEPT !.line = string])
    /\ tar_file' = ""
    /\ archive' = <<>>
    /\ all_files' = <<>>
    /\ executable_files' = <<>>
    /\ suid_files' = <<>>
    /\ install_file' = ""
    /\ output' = <<>>
    /\ pc' = "tar_check"
    /\ UNCHANGED <<entry, resolution, plan_vars, to_review, calls, name, dir_items,
                   string, result, stderr, exit_status>>

\* action_install.rs lines 197-199: tar_check_unwrap returned; its locals are
\* gone and the loop goes on to the next kept file
TarCheckReturned ==
    /\ pc = "checked"
    /\ entry # "tar_check_unwrap"
    /\ LET done == {f \in unchecked : JoinPath(build_dir_path(name), f) = tar_file} IN
        /\ unchecked' = unchecked \ done
        /\ log' = Append(log, [Event("accepted", name, 0, done, {}, FALSE)
                                EXCEPT !.line = string])
    /\ tar_file' = ""
    /\ archive' = <<>>
    /\ all_files' = <<>>
    /\ executable_files' = <<>>
    /\ suid_files' = <<>>
    /\ install_file' = ""
    /\ output' = <<>>
    /\ pc' = "tar_check"
    /\ UNCHANGED <<entry, resolution, dirs, plan_vars, to_review, calls, name, dir_items,
                   string, result, stderr, exit_status>>

(***************************************************************************)
(* The run of install.                                                     *)
(***************************************************************************)
Next ==
    \/ RecursiveInfoPanics
    \/ InstallNotFound
    \/ ShowInstallSummary
    \/ \E line \in RunInputs : Proceed(line)
    \/ \E pkgbase \in Pkgbases : ReviewRepo(pkgbase)
    \/ \E pkgbase \in Pkgbases : ReviewDirPanics(pkgbase)
    \/ EnsurePacmanPackagesInstalled
    \/ InstallAllBegin
    \/ NextTier
    \/ \E produced \in SUBSET FileNames : BuildDirectory(produced)
    \/ BuildDirectoryPanics
    \/ \E produced \in SUBSET FileNames, status \in BuildFailureStatuses :
          BuildDirectoryFails(produced, status)
    \/ CheckTarsAndMove
    \/ ReadDirPanics
    \/ \E f \in FileNames, members \in RunArchives : TarCheck(f, members)
    \/ \E line \in RunInputs : ReviewLoop(line)
    \/ TarCheckReturned
    \/ MoveChecked
    \/ MoveCheckedPanics
    \/ CheckTarsReturned
    \/ ReadCheckedPanics
    \/ EnsureAurPackagesInstalled

Spec == Init /\ [][Next]_vars

(***************************************************************************)
(* check_tars_and_move called on its own, several times, on build          *)
(* directories that no build touches in between.                           *)
(***************************************************************************)
\* the caller's whitelist, built as install_all builds it
InitGate ==
    /\ entry = "check_tars_and_move"
    /\ pc = "idle"
    /\ info_result = "Ok"
    /\ split_to_raur \in RaurResults(Targets)
    /\ split_to_depth = [t \in {split_to_raur[i].split : i \in 1..Len(split_to_raur)} |-> 0]
    /\ pacman_deps = {}
    /\ asdeps = FALSE
    /\ build_dir \in [Pkgbases -> SUBSET FileNames]
    /\ checked_tars = [p \in Pkgbases |-> StaleFiles]
    /\ archive_whitelist = ArchiveWhitelist(split_to_version_of(split_to_raur))
    /\ InitLocals

\* a caller calls check_tars_and_move(pkgbase, dirs, archive_whitelist)
CheckTarsCall(pkgbase) ==
    /\ pc = "idle"
    /\ calls < MaxGateCalls
    /\ ListAndFilter(pkgbase)
    /\ UNCHANGED <<entry, resolution, dirs, plan_vars, to_review, audit_vars,
                   string, stderr, exit_status>>

\* lines 178-184: the call of a caller panics
CheckTarsCallPanics(pkgbase) ==
    /\ pc = "idle"
    /\ calls < MaxGateCalls
    /\ ReadDirFails(pkgbase)

\* check_tars_and_move returned to its caller
CheckTarsDone ==
    /\ pc = "moved"
    /\ entry = "check_tars_and_move"
    /\ pc' = "idle"
    /\ UNCHANGED <<entry, resolution, dirs, plan_vars, to_review, gate_vars, audit_vars,
                   string, stderr, exit_status, log>>

NextGate ==
    \/ \E pkgbase \in Pkgbases : CheckTarsCall(pkgbase)
    \/ \E pkgbase \in Pkgbases : CheckTarsCallPanics(pkgbase)
    \/ \E f \in FileNames, members \in RunArchives : TarCheck(f, members)
    \/ \E line \in RunInputs : ReviewLoop(line)
    \/ TarCheckReturned
    \/ MoveChecked
    \/ MoveCheckedPanics
    \/ CheckTarsDone

SpecGate == InitGate /\ [][NextGate]_vars

(***************************************************************************)
(* tar_check_unwrap called on its own, on any archive.                     *)
(***************************************************************************)
\* the member entries an archive can hold
MemberPaths == {"x", ".h", "d/", ".INSTALL"}
MemberModes == {420, 493, 511, 512, 2541}
MemberSet ==
    {[path |-> p, mode |-> m, content |-> c, utf8 |-> u, corrupt |-> k] :
        p \in MemberPaths, m \in MemberModes, c \in {"", "rm"}, u \in BOOLEAN,
        k \in BOOLEAN}

\* an entry that cannot be read stands for all of them, content counts for
\* .INSTALL alone, and content that is not UTF-8 is not text
Members ==
    {m \in MemberSet :
        /\ m.content = "" \/ (IsInstallFile(m.path) /\ m.utf8)
        /\ m.corrupt => (m.path = "x" /\ m.mode = 420 /\ m.utf8)
        /\ ~m.utf8 => (IsInstallFile(m.path) /\ m.mode = 420)}

\* the archives of at most MaxMembers members
Archives == UNION {[1..n -> Members] : n \in 0..MaxMembers}

\* the paths tar_check_unwrap is called with
TarPaths == {"a-1.tar", "b-1.tar.xz", "a-1.zip"}

InitTarCheck ==
    /\ entry = "tar_check_unwrap"
    /\ pc = "tar_check_unwrap"
    /\ info_result = "Ok"
    /\ split_to_raur = <<>>
    /\ split_to_depth = <<>>
    /\ pacman_deps = {}
    /\ asdeps = FALSE
    /\ build_dir = [p \in Pkgbases |-> {}]
    /\ checked_tars = [p \in Pkgbases |-> StaleFiles]
    /\ archive_whitelist = <<>>
    /\ InitLocals

\* tar_check_unwrap(path) on a file of the given content, or on a path that
\* cannot be opened
TarCheckCall ==
    /\ pc = "tar_check_unwrap"
    /\ \E path \in TarPaths, openable \in BOOLEAN, members \in Archives :
          TarCheckUnwrap(path, openable, members)
    /\ UNCHANGED <<entry, resolution, dirs, plan_vars, to_review, gate_vars, string, log>>

NextTarCheck ==
    \/ TarCheckCall
    \/ \E line \in Inputs : ReviewLoop(line)

SpecTarCheck == InitTarCheck /\ [][NextTarCheck]_vars

(***************************************************************************)
(* install_all called with a complete resolution of up to three targets:   *)
(* the plan alone.                                                         *)
(***************************************************************************)
InitPlan ==
    /\ entry = "install_all"
    /\ pc = "install_all"
    /\ info_result = "Ok"
    /\ split_to_depth \in DepthMapsOf(PlanTargets)
    /\ split_to_raur \in RaurResults(DOMAIN split_to_depth)
    /\ NotFound(split_to_depth, split_to_raur) = {}
    /\ pacman_deps = {}
    /\ asdeps = FALSE
    /\ build_dir = [p \in Pkgbases |-> {}]
    /\ checked_tars = [p \in Pkgbases |-> StaleFiles]
    /\ archive_whitelist = <<>>
    /\ InitLocals

NextPlan == InstallAllBegin

SpecPlan == InitPlan /\ [][NextPlan]_vars

(***************************************************************************)
(* Properties.                                                             *)
(***************************************************************************)
\* the greatest element of a non-empty set of integers
MaxOf(S) == CHOOSE x \in S : \A y \in S : y <= x

\* the entries of the log of one kind
Events(kind) == {i \in 1..Len(log) : log[i].ev = kind}

\* install_all has computed its plan
PlanComputed ==
    /\ entry \in {"install", "install_all"}
    /\ pc \notin {"install", "proceed", "review", "install_all"}
    /\ info_result = "Ok"
    /\ NotFound(split_to_depth, split_to_raur) = {}
    /\ \A e \in Events("fail") : log[e].line # "review_dir"

\* the depths of the targets that map to a package-base
DepthsOf(pkgbase) ==
    {split_to_depth[split_to_raur[i].split] :
        i \in {j \in 1..Len(split_to_raur) : split_to_raur[j].pkgbase = pkgbase}}

\* C2: the build plan holds every package-base of the resolution exactly
\* once, no other package-base, and the depth attached to a package-base is
\* the maximum depth among the targets that map to it.
C2_PlanOncePerPkgbaseAtMaxDepth ==
    PlanComputed =>
        /\ \A pkgbase \in PkgbaseSet(split_to_raur) :
              /\ Cardinality({i \in 1..Len(plan) : plan[i].pkgbase = pkgbase}) = 1
              /\ \A i \in 1..Len(plan) :
                    plan[i].pkgbase = pkgbase => plan[i].depth = MaxOf(DepthsOf(pkgbase))
        /\ \A i \in 1..Len(plan) : plan[i].pkgbase \in PkgbaseSet(split_to_raur)

\* a package-base with split targets at different depths, the shallower one
\* first in the resolution, beside another package-base, has been planned
C2_Witness ==
    /\ PlanComputed
    /\ Len(plan) = 2
    /\ \E i, j \in 1..Len(split_to_raur) :
          /\ i < j
          /\ split_to_raur[i].pkgbase = split_to_raur[j].pkgbase
          /\ split_to_depth[split_to_raur[i].split] < split_to_depth[split_to_raur[j].split]

\* C1: every file handed to ensure_aur_packages_installed was, earlier in the
\* same run, kept by the whitelist filter of check_tars_and_move, passed to
\* tar_check, and accepted by the operator's "o" at the review prompt.
C1_InstalledFilesWereAudited ==
    \A i \in Events("install") :
        \A item \in log[i].batch :
            \E j \in Events("accepted"), k \in Events("tar_check"), g \in Events("gate") :
                /\ g < k /\ k < j /\ j < i
                /\ log[j].line = "o"
                /\ log[g].pkg = log[j].pkg /\ log[k].pkg = log[j].pkg
                /\ log[k].files = log[j].files
                /\ \E f \in log[j].files :
                      /\ item.path = "checked_tars/" \o log[j].pkg \o "/" \o f
                      /\ f \in log[g].files
                      /\ \E t \in DOMAIN split_to_depth, v \in Versions :
                            /\ \E n \in 1..Len(split_to_raur) :
                                  split_to_raur[n].split = t /\ split_to_raur[n].version = v
                            /\ StartsWith(f, t \o "-" \o v)

\* the installer has been handed two audited files in one call
C1_Witness ==
    \E i \in Events("install") : Cardinality(log[i].batch) >= 2

\* the depth install_all planned a package-base at
PlanDepth(pkgbase) ==
    MaxOf({plan[n].depth : n \in {m \in 1..Len(plan) : plan[m].pkgbase = pkgbase}})

\* the entries check_tars_and_move and tar_check_unwrap leave in the log
GateEvents ==
    Events("gate") \cup Events("tar_check") \cup Events("accepted") \cup Events("move")

\* C3: the depths of the successive installer calls are strictly decreasing;
\* when the installer is called for a tier, every package-base of that depth
\* has been built and has been through check_tars_and_move; builds and audits
\* of that tier and of deeper ones lie before the call, those of shallower
\* tiers after it; and a build starts only after the installer was called for
\* every deeper tier.
C3_TiersInOrder ==
    /\ \A i \in Events("install") :
          /\ \A j \in Events("install") : i < j => log[i].depth > log[j].depth
          /\ \A n \in 1..Len(plan) :
                plan[n].depth = log[i].depth =>
                    \E b \in Events("build"), m \in Events("move") :
                        /\ b < m /\ m < i
                        /\ log[b].pkg = plan[n].pkgbase /\ log[b].depth = log[i].depth
                        /\ log[m].pkg = plan[n].pkgbase
          /\ \A b \in Events("build") :
                IF log[b].depth >= log[i].depth THEN b < i ELSE i < b
          /\ \A e \in GateEvents :
                IF PlanDepth(log[e].pkg) >= log[i].depth THEN e < i ELSE i < e
    /\ \A b \in Events("build") :
          \A n \in 1..Len(plan) :
              plan[n].depth > log[b].depth =>
                  \E i \in Events("install") : i < b /\ log[i].depth = plan[n].depth

\* a run that went through two tiers, the second one already built
C3_Witness ==
    \E i, j \in Events("install"), b \in Events("build") :
        i < b /\ b < j /\ log[i].batch # {} /\ log[j].batch # {}

\* the file name starts with {target}-{version} of some resolved target
HasExpectedPrefix(file_name) ==
    \E n \in 1..Len(split_to_raur) :
        StartsWith(file_name, split_to_raur[n].split \o "-" \o split_to_raur[n].version)

\* C4: a file whose name starts with no {target}-{version} of the resolution
\* is never passed to tar_check by check_tars_and_move, and is in no
\* checked_tars directory that a call of check_tars_and_move has filled.
C4_UnlistedNeverAuditedNorChecked ==
    /\ \A k \in Events("tar_check") : \A f \in log[k].files : HasExpectedPrefix(f)
    /\ \A m \in Events("move") : \A f \in checked_tars[log[m].pkg] : HasExpectedPrefix(f)

\* check_tars_and_move has returned: it left a file without expected prefix
\* behind in the build directory and moved another file into checked_tars
C4_Witness ==
    /\ pc = "moved"
    /\ \E f \in build_dir[name] : ~HasExpectedPrefix(f)
    /\ checked_tars[name] # {}

\* the log entry of the latest call of check_tars_and_move
LastGate == MaxOf(Events("gate"))

\* check_tars_and_move was called and has not moved anything yet: it is
\* auditing, or the process ended in one of its audits
CallOpen ==
    /\ Events("gate") # {}
    /\ \A m \in Events("move") : m < LastGate
    /\ \A e \in Events("fail") : log[e].line # "move"

\* C5: when check_tars_and_move moves, every file of the listing with an
\* expected prefix has been accepted with "o" since the call began, and these
\* are the files moved; until then, and for good when an audit ended the
\* process (abort, unsupported format), the build directory still holds what
\* was listed and checked_tars still holds what it held before the call.
C5_MoveOnlyAfterAllAccepted ==
    /\ \A m \in Events("move") :
          \E g \in Events("gate") :
              /\ g < m /\ log[g].pkg = log[m].pkg
              /\ \A e \in GateEvents : e < m /\ g < e => log[e].ev \in {"tar_check", "accepted"}
              /\ log[m].files = {f \in log[g].files : HasExpectedPrefix(f)}
              /\ \A f \in log[m].files :
                    \E j \in Events("accepted") :
                        g < j /\ j < m /\ log[j].files = {f} /\ log[j].line = "o"
    /\ CallOpen =>
          /\ build_dir[name] = log[LastGate].files
          /\ checked_tars[name] = StaleFiles

\* one kept file was accepted, the audit of the next one ended the process,
\* and nothing was moved
C5_Witness ==
    /\ pc = "exited"
    /\ CallOpen
    /\ \E j \in Events("accepted") : j > LastGate
    /\ checked_tars[name] = StaleFiles

\* the call of check_tars_and_move that a "move" entry of the log ends
GateOf(m) == MaxOf({g \in Events("gate") : g < m})

\* C6 as claimed: a second call of check_tars_and_move for a package-base,
\* with the same whitelist, every audit accepted and no build in between,
\* lists the same build directory and moves the same set of files as the
\* first call.
C6_GateIdempotent ==
    \A m1, m2 \in Events("move") :
        m1 < m2 /\ log[m1].pkg = log[m2].pkg =>
            /\ log[m2].files = log[m1].files
            /\ log[GateOf(m2)].files = log[GateOf(m1)].files

\* C6, amended: a call of check_tars_and_move renames the files it kept out of
\* the build directory and leaves the other files of the listing there, so a
\* later call for the same package-base lists the first listing without the
\* files moved and moves nothing: its checked_tars is empty.
C6_SecondCallMovesNothing ==
    /\ \A m1, m2 \in Events("move") :
          m1 < m2 /\ log[m1].pkg = log[m2].pkg =>
              /\ log[m2].files = {}
              /\ log[GateOf(m2)].files = log[GateOf(m1)].files \ log[m1].files
    /\ pc = "moved" =>
          /\ build_dir[name] = log[LastGate].files \ dir_items
          /\ checked_tars[name] = dir_items
          /\ \A pkgbase \in Pkgbases :
                (\A g \in Events("gate") : log[g].pkg # pkgbase) =>
                    checked_tars[pkgbase] = StaleFiles

\* a second call for a package-base has returned after a first call that
\* moved two files
C6_Witness ==
    /\ pc = "moved"
    /\ \E m1, m2 \in Events("move") :
          m1 < m2 /\ log[m1].pkg = log[m2].pkg /\ Cardinality(log[m1].files) >= 2

\* the keys of the depth map the registry returned no record for
MissingNames ==
    DOMAIN split_to_depth \ {split_to_raur[n].split : n \in 1..Len(split_to_raur)}

\* C7: when a key of the depth map is missing from the metadata, install does
\* nothing but exit with status 1 and name every missing key: no prompt is
\* read, no collaborator is called, no directory is touched.
C7_NotFoundExitsBeforeAnything ==
    (entry = "install" /\ MissingNames # {}) =>
        /\ pc \in {"install", "exited"}
        /\ log = <<>>
        /\ string = ""
        /\ build_dir = [p \in Pkgbases |-> {}]
        /\ checked_tars = [p \in Pkgbases |-> StaleFiles]
        /\ pc = "exited" => exit_status = <<1>> /\ stderr = MissingNames
        /\ pc = "install" => exit_status = <<>>

\* install has exited for a missing transitive dependency (depth 1) although
\* the requested target was found
C7_Witness ==
    /\ entry = "install"
    /\ pc = "exited"
    /\ exit_status = <<1>>
    /\ Len(split_to_raur) = 1
    /\ \E t \in stderr : t \in DOMAIN split_to_depth /\ split_to_depth[t] = 1

\* the file name has one of the two supported suffixes
SupportedSuffix(file_name) ==
    \/ SubSeq(file_name, Len(file_name) - 6, Len(file_name)) = ".tar.xz"
    \/ SubSeq(file_name, Len(file_name) - 3, Len(file_name)) = ".tar"

\* C8: when check_tars_and_move passes a file with neither suffix to
\* tar_check, tar_check returns Err (no panic), the members are not walked and
\* no prompt is entered, the process ends with status 1, and that call has
\* moved nothing: nothing follows in the log and both directories are as the
\* call found them.
C8_UnsupportedFormatIsAnError ==
    \A k \in Events("tar_check") :
        \A f \in log[k].files :
            ~SupportedSuffix(f) =>
                /\ k = Len(log)
                /\ pc = "exited"
                /\ result = "Err"
                /\ exit_status = <<1>>
                /\ stderr = {"build/" \o log[k].pkg \o "/" \o f}
                /\ archive = <<>> /\ output = <<>>
                /\ build_dir[log[k].pkg] = log[LastGate].files
                /\ checked_tars[log[k].pkg] = StaleFiles

\* the process has ended on a .zip file, after another file of the same call
\* was accepted
C8_Witness ==
    /\ pc = "exited"
    /\ result = "Err"
    /\ tar_file = "build/p/a-1.zip"
    /\ \E j \in Events("accepted") : j > LastGate

\* the positions of the members of the archive with a mode above 0o777
PrivilegedAt == {i \in 1..Len(archive) : archive[i].mode > 511}

\* C9: the SUID list holds the path of a member, once and in archive order,
\* exactly for the members whose mode is above 0o777, whatever their path
\* (directory entry, hidden) and execute bits; the prompt offers [S] exactly
\* when there is such a member, and the input s then prints that list.
C9_PrivilegedIffModeAbove777 ==
    /\ Len(suid_files) = Cardinality(PrivilegedAt)
    /\ \A i \in PrivilegedAt :
          suid_files[Cardinality({j \in PrivilegedAt : j <= i})] = archive[i].path
    /\ pc = "prompt" =>
          /\ "s" \in Menu(suid_files, install_file) <=> PrivilegedAt # {}
          /\ (string = "s" /\ PrivilegedAt # {}) => output = suid_files

\* the input s has listed a hidden member or a directory entry of mode 0o4755,
\* beside a member that is not privileged
C9_Witness ==
    /\ pc = "prompt"
    /\ string = "s"
    /\ Len(archive) > Len(output)
    /\ \E i \in 1..Len(archive) :
          /\ archive[i].path \in {".h", "d/"}
          /\ archive[i].mode = 2541
          /\ output = <<archive[i].path>>

\* C10: a step taken at the review prompt leaves the prompt only on the
\* line o, with which tar_check returns Ok and the process goes on, and on
\* the line q, with which the process ends with a non-zero status; every
\* other line (a listing, the shell, an unknown line, s without SUID files,
\* i without install script) leaves the process at the prompt.
C10_PromptLeftOnlyByAcceptOrAbort ==
    [][pc = "prompt" =>
          /\ string' = "o" => (pc' = "checked" /\ result' = "Ok" /\ exit_status' = <<>>)
          /\ string' = "q" => (pc' = "exited" /\ exit_status' = <<255>> /\ result' = result)
          /\ string' \notin {"o", "q"} =>
                /\ pc' = "prompt"
                /\ exit_status' = <<>>
                /\ result' = result
                /\ <<tar_file, archive, suid_files, install_file>>' =
                       <<tar_file, archive, suid_files, install_file>>
      ]_vars

\* the prompt was left with o, on an archive that has a privileged member
C10_Witness ==
    /\ pc = "checked"
    /\ string = "o"
    /\ result = "Ok"
    /\ suid_files # <<>>
    /\ exit_status = <<>>

\* C11: every call of the installer is made for one tier and carries the flag
\* asdeps \/ depth > 0 of that tier: a tier of depth 0 is marked as dependency
\* exactly when --asdeps was given, a tier of depth above 0 always is.
C11_DependencyFlagIsAsdepsOrDepth ==
    \A i \in Events("install") :
        /\ \E n \in 1..Len(plan) : plan[n].depth = log[i].depth
        /\ \A item \in log[i].batch :
              \E n \in 1..Len(plan) :
                  plan[n].split = item.split /\ plan[n].depth = log[i].depth
        /\ log[i].depth = 0 => log[i].dep = asdeps
        /\ log[i].depth > 0 => log[i].dep = TRUE

\* without --asdeps, a tier of depth 1 was installed marked as dependency and
\* the tier of depth 0 after it was installed unmarked
C11_Witness ==
    /\ ~asdeps
    /\ \E i, j \in Events("install") :
          /\ i < j
          /\ log[i].depth = 1 /\ log[i].dep /\ log[i].batch # {}
          /\ log[j].depth = 0 /\ ~log[j].dep /\ log[j].batch # {}

\* the file at the path is an artifact of the target: it lies in a checked_tars
\* directory and its name starts with {target}-{version}
ArtifactOf(path, target) ==
    \E pkgbase \in Pkgbases, n \in 1..Len(split_to_raur) :
        /\ split_to_raur[n].split = target
        /\ StartsWith(path, "checked_tars/" \o pkgbase \o "/" \o target \o "-"
                               \o split_to_raur[n].version)

\* C12: without --asdeps, no artifact of a target of depth 0 is handed to the
\* installer in a call marked as dependency, whatever package-bases the
\* targets map to.
C12_RequestedNeverMarkedAsDependency ==
    ~asdeps =>
        \A i \in Events("install") :
            log[i].dep =>
                \A item \in log[i].batch :
                    \A t \in DOMAIN split_to_depth :
                        split_to_depth[t] = 0 => ~ArtifactOf(item.path, t)

\* the calls install makes once show_install_summary has returned
AfterSummary ==
    Events("review") \cup Events("pacman") \cup Events("build") \cup GateEvents
        \cup Events("install")

\* the number of packages show_install_summary counts
TotalPackages == Cardinality(pacman_deps) + Cardinality(DOMAIN split_to_depth)

\* C13 as claimed: whatever the resolution, a single package in total
\* included, install reviews, installs and builds nothing before the operator
\* has entered o at the Proceed? prompt.
C13_NothingBeforeConfirmation ==
    \A e \in AfterSummary : \E c \in Events("proceed") : c < e

\* C13, amended: when the resolution holds two packages or more in total,
\* install reviews, installs and builds nothing before the operator has
\* entered o at the Proceed? prompt, and any other line leaves it at the
\* prompt; when it holds exactly one package, show_install_summary returns
\* without printing the summary or reading a line, and install goes on.
C13_ConfirmationUnlessSinglePackage ==
    /\ [](entry = "install" =>
            IF TotalPackages = 1
            THEN pc # "proceed" /\ Events("summary") = {} /\ Events("proceed") = {}
            ELSE /\ \A e \in AfterSummary :
                       \E c \in Events("proceed"), m \in Events("summary") : m < c /\ c < e
                 /\ pc \notin {"install", "proceed", "exited"} => Events("proceed") # {})
    /\ [][pc = "proceed" /\ string' # "o" => pc' = "proceed" /\ log' = log]_vars

\* two packages in total: the operator typed o at the Proceed? prompt and a
\* build has started
C13_Witness ==
    /\ TotalPackages = 2
    /\ Events("build") # {}
    /\ \E c \in Events("proceed") : \A b \in Events("build") : c < b

\* the operator ended the process with q at the review prompt
OperatorAborted ==
    pc = "exited" /\ string = "q" /\ output = <<"Exiting...">>

\* the process ended because tar_check returned Err for an unsupported suffix
UnsupportedFormatExit ==
    pc = "exited" /\ result = "Err"

\* the process ended because the registry lacks a required target
NotFoundExit ==
    pc = "exited" /\ entry = "install" /\ MissingNames # {}

\* every package-base of the plan was built, went through
\* check_tars_and_move and was part of an installer call, in this order
AllTiersDone ==
    \A n \in 1..Len(plan) :
        \E b \in Events("build"), m \in Events("move"), i \in Events("install") :
            /\ b < m /\ m < i
            /\ log[b].pkg = plan[n].pkgbase
            /\ log[m].pkg = plan[n].pkgbase
            /\ log[i].depth = plan[n].depth

\* C14: the process ends with status 1 when a required target is missing
\* from the registry; the status of an operator abort is not zero and is not
\* the status of the not-found exit nor that of the unsupported-format exit
\* (both 1); and the status is zero only when install has returned, every
\* tier built, audited and installed.
C14_ExitStatuses ==
    /\ NotFoundExit => exit_status = <<1>>
    /\ UnsupportedFormatExit => exit_status = <<1>>
    /\ OperatorAborted =>
          Len(exit_status) = 1 /\ exit_status[1] \in 1..255 /\ exit_status[1] # 1
    /\ pc = "exited" => Len(exit_status) = 1 /\ exit_status[1] # 0
    /\ exit_status = <<0>> =>
          pc = "done" /\ Events("fail") = {} /\ (entry = "install" => AllTiersDone)
    /\ pc = "done" => exit_status = <<0>>

\* the operator aborted the audit of the second tier, after the first tier
\* was installed
C14_Witness ==
    /\ OperatorAborted
    /\ entry = "install"
    /\ exit_status = <<255>>
    /\ Events("install") # {}

\* the positions of the log where a step of a tier failed: a filesystem step
\* or a build (a "fail" entry), or tar_check on a file with an unsupported
\* suffix
FailedAt ==
    {e \in Events("fail") : log[e].line # "review_dir"} \cup
        {k \in Events("tar_check") : \E f \in log[k].files : ~SupportedSuffix(f)}

\* the installer was not called for the tier being processed, and nothing of
\* a shallower tier was built, audited or installed
TierAbandoned ==
    /\ \A i \in Events("install") : log[i].depth > tier[1].depth
    /\ \A b \in Events("build") : log[b].depth >= tier[1].depth
    /\ \A e \in GateEvents : PlanDepth(log[e].pkg) >= tier[1].depth

\* C15: a failed build, a failed filesystem step, an audit of an unsupported
\* format or of an unreadable archive and an operator abort each end the
\* process in the tier they occur in (an audit that ended the process is the
\* last entry of the log): the failing step is the last entry for good, so the
\* installer is not called for that tier and nothing of a shallower tier is
\* built, audited or installed.
C15_FailureAbortsTheRun ==
    /\ [](entry = "install" =>
            /\ \A e \in FailedAt : e = Len(log) /\ pc = "exited" /\ TierAbandoned
            /\ OperatorAborted => log[Len(log)].ev = "tar_check"
            /\ (pc = "exited" /\ log # <<>> /\ log[Len(log)].ev = "tar_check") =>
                  TierAbandoned)
    /\ [][pc = "exited" => pc' = "exited" /\ log' = log /\ dirs' = dirs]_vars

\* the first tier was installed and a step of the second tier has failed
C15_Witness ==
    /\ entry = "install"
    /\ pc = "exited"
    /\ FailedAt # {}
    /\ Events("install") # {}
    /\ Len(plan) = 2

\* C16: when check_tars_and_move is called for a package-base, every
\* package-base of the plan with the same depth has been built, and no build
\* of that depth follows: the builds of a tier all come before its audits.
C16_BuildsOfTierBeforeItsAudits ==
    entry = "install" =>
        \A g \in Events("gate") :
            /\ \A n \in 1..Len(plan) :
                  plan[n].depth = PlanDepth(log[g].pkg) =>
                      \E b \in Events("build") : b < g /\ log[b].pkg = plan[n].pkgbase
            /\ \A b \in Events("build") :
                  log[b].depth = PlanDepth(log[g].pkg) => b < g

\* a tier of two package-bases: both were built, then both went through
\* check_tars_and_move
C16_Witness ==
    /\ entry = "install"
    /\ Len(tier) = 2
    /\ \E g1, g2 \in Events("gate") :
          /\ g1 < g2
          /\ log[g1].pkg # log[g2].pkg
          /\ Cardinality({b \in Events("build") : b < g1}) = 2

\* what the checked_tars directory of a package-base held before the log
\* entry k: the files of the latest move before k, or those of an earlier run
CheckedBefore(pkgbase, k) ==
    LET moves == {m \in Events("move") : m < k /\ log[m].pkg = pkgbase} IN
    IF moves = {} THEN StaleFiles ELSE log[MaxOf(moves)].files

\* C17: when a call of check_tars_and_move has returned, the checked_tars
\* directory of its package-base holds exactly the files of the listing that
\* the filter kept, each accepted during this call; nothing it held before
\* the call is left; and the checked_tars directory of every other
\* package-base holds what it held before the call.
C17_CheckedHoldsLatestBatchOnly ==
    pc = "moved" =>
        /\ checked_tars[name] = {f \in log[LastGate].files : HasExpectedPrefix(f)}
        /\ \A f \in checked_tars[name] :
              \E j \in Events("accepted") :
                  j > LastGate /\ log[j].files = {f} /\ log[j].line = "o"
        /\ checked_tars[name] \cap CheckedBefore(name, LastGate) = {}
        /\ \A pkgbase \in Pkgbases \ {name} :
              checked_tars[pkgbase] = CheckedBefore(pkgbase, LastGate)

\* a call has returned with files moved, after a call for the other
\* package-base that moved files too
C17_Witness ==
    /\ pc = "moved"
    /\ checked_tars[name] # {}
    /\ \E pkgbase \in Pkgbases \ {name} :
          /\ checked_tars[pkgbase] # {}
          /\ checked_tars[pkgbase] # StaleFiles

\* the targets of the resolution whose {target}-{version} the file name
\* starts with, as positions of split_to_raur
TargetsPrefixing(file_name) ==
    {n \in 1..Len(split_to_raur) :
        StartsWith(file_name, split_to_raur[n].split \o "-" \o split_to_raur[n].version)}

\* the tier a target belongs to: the depth its package-base is planned at
TierOfTarget(n) == PlanDepth(split_to_raur[n].pkgbase)

\* C18 as claimed: a file that check_tars_and_move passes to tar_check has
\* the prefix {target}-{version} of a target of the tier being processed.
C18_WhitelistOfTierOnly ==
    entry = "install" =>
        \A k \in Events("tar_check") :
            \A f \in log[k].files :
                \E n \in TargetsPrefixing(f) : TierOfTarget(n) = PlanDepth(log[k].pkg)

\* C18, amended: install_all builds one whitelist, {target}-{version} for
\* every target of the resolution, and hands it to check_tars_and_move for
\* every package-base of every tier; a file of the listing is kept, audited
\* and moved exactly when it has one of these prefixes, whichever tier that
\* target belongs to, and the kept files are handed to the installer with the
\* tier of the build directory they were found in.
C18_WhitelistOfWholeResolution ==
    (entry = "install" /\ PlanComputed) =>
        /\ Len(archive_whitelist) = Len(split_to_raur)
        /\ \A n \in 1..Len(split_to_raur) :
              archive_whitelist[n] = split_to_raur[n].split \o "-" \o split_to_raur[n].version
        /\ \A m \in Events("move") :
              /\ log[m].files = {f \in log[GateOf(m)].files : TargetsPrefixing(f) # {}}
              /\ \A f \in log[m].files :
                    \E k \in Events("tar_check") :
                        GateOf(m) < k /\ k < m /\ log[k].files = {f}
              /\ \A i \in Events("install") :
                    (m < i /\ log[i].depth = PlanDepth(log[m].pkg)) =>
                        \A f \in log[m].files :
                            \E item \in log[i].batch :
                                item.path = "checked_tars/" \o log[m].pkg \o "/" \o f

\* a file named after a target of the tier of depth 0 alone was found in a
\* build directory of the tier of depth 1, and was installed with that tier
C18_Witness ==
    /\ entry = "install"
    /\ \E i \in Events("install"), m \in Events("move") :
          /\ m < i
          /\ log[i].depth = 1
          /\ \E f \in log[m].files :
                /\ \A n \in TargetsPrefixing(f) : TierOfTarget(n) = 0
                /\ \E item \in log[i].batch :
                      item.path = "checked_tars/" \o log[m].pkg \o "/" \o f

\* the members of the archive named .INSTALL
InstallMembers == {i \in 1..Len(archive) : archive[i].path = ".INSTALL"}

\* C19 as claimed: the prompt offers [I], and the line i prints the captured
\* text, exactly when the archive has a member named .INSTALL, an empty one
\* included; without such a member the line i is an unknown line.
C19_InstallOptionIffMemberExists ==
    pc = "prompt" =>
        /\ "i" \in Menu(suid_files, install_file) <=> InstallMembers # {}
        /\ string = "i" =>
              output = IF InstallMembers # {} THEN <<install_file>> ELSE <<>>

\* C19, amended: the prompt offers [I], and the line i prints the captured
\* text, exactly when the archive has a member named .INSTALL whose content
\* is not empty; the captured text is the content of these members; with no
\* such member, or only empty ones, [I] is not offered and the line i is an
\* unknown line that prints nothing and leaves the process at the prompt.
C19_InstallOptionIffTextCaptured ==
    pc = "prompt" =>
        /\ install_file # "" <=> \E i \in InstallMembers : archive[i].content # ""
        /\ "i" \in Menu(suid_files, install_file) <=>
              \E i \in InstallMembers : archive[i].content # ""
        /\ string = "i" =>
              output = IF \E i \in InstallMembers : archive[i].content # ""
                       THEN <<install_file>> ELSE <<>>
        /\ \A i \in InstallMembers :
              archive[i].content # "" =>
                  \E a, b \in 0..Len(install_file) :
                      SubSeq(install_file, a + 1, b) = archive[i].content

\* the line i has printed the text of the .INSTALL member of an archive that
\* holds another member too
C19_Witness ==
    /\ pc = "prompt"
    /\ string = "i"
    /\ Len(archive) = 2
    /\ Cardinality(InstallMembers) = 1
    /\ output = <<"rm">>

\* the positions of the log where a build was started: it completed, or a
\* step of it failed
BuildStarts ==
    Events("build") \cup {e \in Events("fail") : log[e].line \in {"build_dir", "build"}}

\* C20: when a build is started, the review directory of every package-base
\* of the plan was created and passed to review_repo, once, and after these
\* ensure_pacman_packages_installed was called with the pacman dependencies
\* of the resolution, all before the first build of the run.
C20_ReviewedAndPacmanBeforeFirstBuild ==
    entry = "install" =>
        \A b \in BuildStarts :
            /\ \A n \in 1..Len(plan) :
                  \E r \in Events("review") :
                      /\ log[r].pkg = plan[n].pkgbase
                      /\ \A r2 \in Events("review") : log[r2].pkg = log[r].pkg => r2 = r
            /\ \E c \in Events("pacman") :
                  /\ c < b
                  /\ log[c].files = pacman_deps
                  /\ \A r \in Events("review") : r < c
            /\ \E r \in Events("review") : log[r].pkg = log[b].pkg /\ r < b

\* the second package-base of a run with a pacman dependency is being built:
\* both were reviewed and glibc was installed before the first build
C20_Witness ==
    /\ entry = "install"
    /\ Cardinality(Events("build")) = 2
    /\ Cardinality(Events("review")) = 2
    /\ \E c \in Events("pacman") : log[c].files = {"glibc"}

=============================================================================
